---- MODULE Spec2Model ----
(***************************************************************************)
(* A model of the MQTT client worker of SimpleSensor                       *)
(* (simplesensor/communication_modules/mqtt_client/mqttClientModule.py).   *)
(*                                                                         *)
(* Python values are modelled as records of one shape per family:          *)
(*   - a number is a rational n/d with a kind ("int" or "float"); the      *)
(*     literal 0.8 is PyFloat(8, 10); floating point rounding is not       *)
(*     modelled;                                                           *)
(*   - a str value is PyStr(s);                                            *)
(*   - a dict value is PyDict(items), items being the sequence of          *)
(*     <<key, value>> pairs in the dict's iteration order.                 *)
(* A call's outcome is a record: exc is the name of the exception that     *)
(* escaped the call ("" when it returned), pubs the broker publish calls   *)
(* it issued, logs the messages it sent to logger.error.                   *)
(***************************************************************************)
EXTENDS Integers, Sequences, FiniteSets, TLC

VARIABLES
    pc,             \* position of the worker: "init", "pump", "queue", "done", "refused", "crashed"
    alive,          \* self.alive
    exit,           \* self.exit
    mqttConnected,  \* self.mqttConnected
    inQueue,        \* self.inQueue, oldest message first
    cfg,            \* the configuration read by __init__ and check_ss_version
    link,           \* the paho client's transport: "idle", "connecting", "up"
    published,      \* every broker publish call issued so far, in order
    dropped,        \* ids of the messages dequeued while not connected
    nextId,         \* id given to the next message the producer enqueues
    calls,          \* number of direct method calls made so far
    sleeps,         \* number of time.sleep(1) grace periods slept in shutdown()
    connects,       \* number of _client.connect calls
    arg,            \* the message handed to a direct call of publish_face_values
    last            \* what the last executed handler did

vars == <<pc, alive, exit, mqttConnected, inQueue, cfg, link, published,
          dropped, nextId, calls, sleeps, connects, arg, last>>

----------------------------------------------------------------------------
(* Bounds of the model. *)

MaxFaces == 2       \* face records per predictions list
MaxAttrs == 2       \* attributes per faceAttributes mapping
MaxEnq == 2         \* messages the upstream producer enqueues in one run
MaxCalls == 2       \* direct method calls in one run

----------------------------------------------------------------------------
(* Python values. *)

PyInt(i) == [kind |-> "int", n |-> i, d |-> 1, s |-> "", items |-> << >>]
PyFloat(a, b) == [kind |-> "float", n |-> a, d |-> b, s |-> "", items |-> << >>]
PyStr(x) == [kind |-> "str", n |-> 0, d |-> 1, s |-> x, items |-> << >>]
PyDict(its) == [kind |-> "dict", n |-> 0, d |-> 1, s |-> "", items |-> its]

IsNumber(v) == v.kind \in {"int", "float"}

\* Equality of two numbers as rationals.
RatEq(a, b) == a.n * b.d = b.n * a.d

\* sum(aDict[key] for key in aDict), starting from int 0, as a rational.
RECURSIVE SumItems(_, _)
SumItems(aDict, i) ==
    IF i = 0 THEN [n |-> 0, d |-> 1]
    ELSE LET r == SumItems(aDict, i - 1)
             v == aDict[i][2]
         IN [n |-> r.n * v.d + v.n * r.d, d |-> r.d * v.d]

----------------------------------------------------------------------------
(* Configuration and names. *)

MqttUsername == "account"       \* moduleConfig['MqttUsername']
MqttFeedName == "sensor"        \* moduleConfig['MqttFeedName']

\* The names bound at module level: the imports and the class.
ModuleGlobals ==
    {"logging", "time", "json", "mqtt", "ThreadsafeLogger", "LooseVersion",
     "StrictVersion", "ModuleProcess", "configLoader", "__version__",
     "MQTTClientModule"}

\* The instance attributes assigned by __init__ (those the base class sets,
\* such as loggingQueue and exit, aside).
InstanceAttrs ==
    {"config", "alive", "inQueue", "moduleConfig", "_keepAlive", "_feedName",
     "_username", "_key", "_host", "_port", "_publishJson", "_client",
     "mqttConnected", "logger"}

\* '{0}/feeds/{1}'.format(self._username, feed), as its path segments.
FeedTopic(feed) == <<MqttUsername, "feeds", feed>>

Returned == [exc |-> "", pubs |-> << >>, logs |-> << >>]
Raised(e) == [exc |-> e, pubs |-> << >>, logs |-> << >>]

\* publish with the feed argument ignored.
publish_default_only(value, feed) ==
    [Returned EXCEPT !.pubs =
        <<[topic |-> FeedTopic(MqttFeedName), payload |-> value]>>]

\* publish(value, feed=False); feed = "" stands for a falsy feed (False or '').
publish(value, feed) ==
    IF feed = ""
    THEN IF "_feedName" \in ModuleGlobals
         THEN [Returned EXCEPT !.pubs =
                  <<[topic |-> FeedTopic(MqttFeedName), payload |-> value]>>]
         ELSE Raised("NameError")
    ELSE [Returned EXCEPT !.pubs = <<[topic |-> FeedTopic(feed), payload |-> value]>>]

\* subscribe(feed=False): the outcome's subs are the broker subscribe calls.
subscribe(feed) ==
    IF feed = ""
    THEN IF "_feedName" \in ModuleGlobals
         THEN [exc |-> "", subs |-> <<FeedTopic(MqttFeedName)>>]
         ELSE [exc |-> "NameError", subs |-> << >>]
    ELSE [exc |-> "", subs |-> <<FeedTopic(feed)>>]

----------------------------------------------------------------------------
(* The flattened face attributes strategy. *)

\* flatten_dict without the division by len(aDict).
flatten_dict_sum(aDict) ==
    LET numeric == \A i \in 1..Len(aDict) : IsNumber(aDict[i][2])
        valBound == numeric /\ Len(aDict) > 0
        total == SumItems(aDict, Len(aDict))
        val == PyFloat(total.n, total.d)
    IN  IF valBound
        THEN [exc |-> "", val |-> IF val.n = 0 THEN PyInt(0) ELSE val, logs |-> << >>]
        ELSE [exc |-> "UnboundLocalError", val |-> PyInt(0),
              logs |-> <<"Error flattening dict, returning 0">>]

\* flatten_dict(aDict): val is bound only when the try block completes.
flatten_dict(aDict) ==
    LET numeric == \A i \in 1..Len(aDict) : IsNumber(aDict[i][2])
        valBound == numeric /\ Len(aDict) > 0
        total == SumItems(aDict, Len(aDict))
        val == PyFloat(total.n, total.d * Len(aDict))
    IN  IF valBound
        THEN [exc |-> "", val |-> IF val.n = 0 THEN PyInt(0) ELSE val, logs |-> << >>]
        ELSE [exc |-> "UnboundLocalError", val |-> PyInt(0),
              logs |-> <<"Error flattening dict, returning 0">>]

\* The two nested for loops with the failing attribute skipped and the
\* traversal carried on.
RECURSIVE face_loop_skipping(_, _, _, _)
face_loop_skipping(predictions, i, j, acc) ==
    IF i > Len(predictions) THEN acc
    ELSE LET face == predictions[i] IN
         IF ~face.ok
         THEN face_loop_skipping(predictions, i + 1, 1, [acc EXCEPT !.exc = "KeyError"])
         ELSE IF j > Len(face.attrs) THEN face_loop_skipping(predictions, i + 1, 1, acc)
         ELSE LET key == face.attrs[j][1]
                  raw == face.attrs[j][2]
                  fl == IF raw.kind = "dict" THEN flatten_dict(raw.items)
                        ELSE [exc |-> "", val |-> raw, logs |-> << >>]
                  p == publish(fl.val, key)
              IN  IF fl.exc # ""
                  THEN face_loop_skipping(predictions, i, j + 1,
                           [acc EXCEPT !.exc = fl.exc, !.logs = acc.logs \o fl.logs])
                  ELSE IF p.exc # ""
                  THEN face_loop_skipping(predictions, i, j + 1,
                           [acc EXCEPT !.exc = p.exc, !.logs = acc.logs \o fl.logs])
                  ELSE face_loop_skipping(predictions, i, j + 1,
                                 [acc EXCEPT !.pubs = acc.pubs \o p.pubs,
                                             !.logs = acc.logs \o fl.logs])

\* The two nested for loops of publish_face_values, from face i, attribute j,
\* with acc the outcome so far; an exception ends the traversal.
RECURSIVE face_loop(_, _, _, _)
face_loop(predictions, i, j, acc) ==
    IF i > Len(predictions) THEN acc
    ELSE LET face == predictions[i] IN
         IF ~face.ok THEN [acc EXCEPT !.exc = "KeyError"]
         ELSE IF j > Len(face.attrs) THEN face_loop(predictions, i + 1, 1, acc)
         ELSE LET key == face.attrs[j][1]
                  raw == face.attrs[j][2]
                  fl == IF raw.kind = "dict" THEN flatten_dict(raw.items)
                        ELSE [exc |-> "", val |-> raw, logs |-> << >>]
                  p == publish(fl.val, key)
              IN  IF fl.exc # ""
                  THEN [acc EXCEPT !.exc = fl.exc, !.logs = acc.logs \o fl.logs]
                  ELSE IF p.exc # ""
                  THEN [acc EXCEPT !.exc = p.exc, !.logs = acc.logs \o fl.logs]
                  ELSE face_loop(predictions, i, j + 1,
                                 [acc EXCEPT !.pubs = acc.pubs \o p.pubs,
                                             !.logs = acc.logs \o fl.logs])

\* publish_face_values without its try/except.
publish_face_values_uncaught(message) ==
    LET ed == message.extended_data
    IN  IF ed.kind = "absent" THEN Raised("KeyError")
        ELSE IF ed.kind = "scalar" THEN Raised("TypeError")
        ELSE face_loop(ed.predictions, 1, 1, Returned)

\* publish_face_values(message): every exception is caught and logged.
publish_face_values(message) ==
    LET ed == message.extended_data
        r == IF ed.kind = "absent" THEN Raised("KeyError")
             ELSE IF ed.kind = "scalar" THEN Raised("TypeError")
             ELSE face_loop(ed.predictions, 1, 1, Returned)
    IN  IF r.exc # ""
        THEN [exc |-> "", pubs |-> r.pubs,
              logs |-> r.logs \o <<"Error publishing values">>]
        ELSE r

----------------------------------------------------------------------------
(* Messages. *)

\* A str is a sequence of characters where the code looks inside it.
LowerCase == <<"a", "b", "c", "d", "e", "f", "g", "h", "i", "j", "k", "l", "m",
               "n", "o", "p", "q", "r", "s", "t", "u", "v", "w", "x", "y", "z">>
UpperCase == <<"A", "B", "C", "D", "E", "F", "G", "H", "I", "J", "K", "L", "M",
               "N", "O", "P", "Q", "R", "S", "T", "U", "V", "W", "X", "Y", "Z">>

\* str.upper()
Upper(str) ==
    [i \in 1..Len(str) |->
        IF \E k \in 1..Len(LowerCase) : LowerCase[k] = str[i]
        THEN UpperCase[CHOOSE k \in 1..Len(LowerCase) : LowerCase[k] = str[i]]
        ELSE str[i]]

SHUTDOWN == <<"S", "H", "U", "T", "D", "O", "W", "N">>

\* extended_data: kind "absent" has no 'predictions' key, kind "scalar" has a
\* value that cannot be iterated, kind "list" has a list of face records. A
\* face record with ok = FALSE has no 'faceAttributes' mapping.
AbsentExt == [kind |-> "absent", predictions |-> << >>]
ScalarExt == [kind |-> "scalar", predictions |-> << >>]
ListExt(p) == [kind |-> "list", predictions |-> p]
Face(attrs) == [ok |-> TRUE, attrs |-> attrs]
BadFace == [ok |-> FALSE, attrs |-> << >>]

Message(topic, ed) == [none |-> FALSE, topic |-> topic, extended_data |-> ed]
NoneMessage == [none |-> TRUE, topic |-> << >>, extended_data |-> AbsentExt]

\* message.stringify(): the canonical serialization, a JSON object of the
\* message's fields.
stringify(message) ==
    [kind |-> "json", topic |-> message.topic,
     extended_data |-> message.extended_data]

\* publish_json_message(message)
publish_json_message(message) == publish(stringify(message), "")

\* The choice of the strategy in process_queue. self._publishFaceData is
\* looked up on the instance, which has no such attribute; the branch to
\* publish_values lies behind that lookup.
dispatch(message, publishJson) ==
    IF publishJson THEN publish_json_message(message)
    ELSE IF "_publishFaceData" \notin InstanceAttrs THEN Raised("AttributeError")
    ELSE publish_face_values(message)

\* The strategy whose method the if/elif/else of process_queue calls; "" when
\* the lookup of self._publishFaceData raises before any method is called.
selected_strategy(publishJson) ==
    IF publishJson THEN "RawJSON"
    ELSE IF "_publishFaceData" \notin InstanceAttrs THEN ""
    ELSE "FlattenedFaceAttributes"

\* handle_message without the test of mqttConnected.
handle_message_unguarded(message, connected, publishJson) ==
    IF ~message.none
    THEN IF Upper(message.topic) = SHUTDOWN
         THEN [exc |-> "", pubs |-> << >>, logs |-> << >>, shutdown |-> TRUE,
               strategy |-> ""]
         ELSE LET r == dispatch(message, publishJson)
              IN  [exc |-> r.exc, pubs |-> r.pubs, logs |-> r.logs, shutdown |-> FALSE,
                   strategy |-> selected_strategy(publishJson)]
    ELSE [exc |-> "", pubs |-> << >>, logs |-> << >>, shutdown |-> FALSE,
          strategy |-> ""]

\* The body of the try block of process_queue once the message is dequeued;
\* shutdown tells whether self.shutdown() was called.
handle_message(message, connected, publishJson) ==
    IF ~message.none /\ connected
    THEN IF Upper(message.topic) = SHUTDOWN
         THEN [exc |-> "", pubs |-> << >>, logs |-> << >>, shutdown |-> TRUE,
               strategy |-> ""]
         ELSE LET r == dispatch(message, publishJson)
              IN  [exc |-> r.exc, pubs |-> r.pubs, logs |-> r.logs, shutdown |-> FALSE,
                   strategy |-> selected_strategy(publishJson)]
    ELSE [exc |-> "", pubs |-> << >>, logs |-> << >>, shutdown |-> FALSE,
          strategy |-> ""]

----------------------------------------------------------------------------
(* The version gate. *)

\* A version string is the sequence of its dot-separated components, each a
\* sequence of decimal digits: "2.10.0" is << <<2>>, <<1, 0>>, <<0>> >>.
RECURSIVE ParseInt(_)
ParseInt(digits) ==
    IF digits = << >> THEN 0
    ELSE 10 * ParseInt(SubSeq(digits, 1, Len(digits) - 1)) + digits[Len(digits)]

\* LooseVersion(vstring).version
LooseVersion(vstring) == [i \in 1..Len(vstring) |-> ParseInt(vstring[i])]

\* a < b on lists of integers
RECURSIVE ListLess(_, _)
ListLess(a, b) ==
    IF a = << >> THEN b # << >>
    ELSE IF b = << >> THEN FALSE
    ELSE IF a[1] # b[1] THEN a[1] < b[1]
    ELSE ListLess(Tail(a), Tail(b))

\* check_ss_version with the comparison the other way round.
check_ss_version_reversed(config) ==
    ~ListLess(LooseVersion(config.MinSimpleSensorVersion),
              LooseVersion(config.ss_version))

\* check_ss_version()
check_ss_version(config) ==
    ~ListLess(LooseVersion(config.ss_version),
              LooseVersion(config.MinSimpleSensorVersion))

----------------------------------------------------------------------------
(* Inputs. *)

SsVersions ==
    { << <<2>>, <<0>>, <<0>> >>,        \* "2.0.0"
      << <<2>>, <<1>> >>,               \* "2.1"
      << <<2>>, <<1>>, <<0>> >>,        \* "2.1.0"
      << <<2>>, <<1, 0>>, <<0>> >> }    \* "2.10.0"
MinVersions == { << <<2>>, <<1>>, <<0>> >> }

Configs ==
    [publishJson : BOOLEAN, ss_version : SsVersions,
     MinSimpleSensorVersion : MinVersions]

Age30 == <<"age", PyInt(30)>>
GenderMale == <<"gender", PyStr("male")>>
FaceTopic == <<"f", "a", "c", "e">>
ExampleFaces == ListExt(<<Face(<<Age30, GenderMale>>)>>)

\* The messages the upstream producer enqueues.
QueueMessages ==
    { Message(SHUTDOWN, AbsentExt),
      Message(<<"S", "h", "u", "t", "d", "o", "w", "n">>, AbsentExt),
      Message(FaceTopic, ExampleFaces),
      NoneMessage }

\* Result codes of a connect acknowledgment and of a disconnect.
ConnackCodes == {0, 5}
LostCodes == {1}

----------------------------------------------------------------------------
(* The state machine. *)

NoOutcome == [exc |-> "", pubs |-> << >>, logs |-> << >>]

\* The record of a handler's execution: the state it saw, and its outcome.
Did(op, id, msg, feed, r) ==
    [op |-> op, id |-> id, msg |-> msg, feed |-> feed,
     connected |-> mqttConnected, alive |-> alive, exit |-> exit, pc |-> pc,
     sleeps |-> sleeps, connects |-> connects, link |-> link,
     exc |-> r.exc, pubs |-> r.pubs, subs |-> << >>, logs |-> r.logs,
     hooks |-> 0, strategy |-> ""]

\* The broker publish calls of an outcome, tagged with the message they are for.
Tagged(id, pubs) ==
    [i \in 1..Len(pubs) |->
        [id |-> id, topic |-> pubs[i].topic, payload |-> pubs[i].payload,
         connected |-> mqttConnected]]

Init ==
    /\ pc = "init"
    /\ alive = TRUE
    /\ exit = FALSE
    /\ mqttConnected = FALSE
    /\ inQueue = << >>
    /\ cfg \in Configs
    /\ link = "idle"
    /\ published = << >>
    /\ dropped = {}
    /\ nextId = 1
    /\ calls = 0
    /\ sleeps = 0
    /\ connects = 0
    /\ arg = NoneMessage
    /\ last = Did("none", 0, NoneMessage, "", NoOutcome)

\* shutdown() that sets the exit flag and leaves alive as it is.
shutdown_keeps_alive ==
    /\ alive' = alive
    /\ sleeps' = sleeps + 1
    /\ exit' = TRUE

\* shutdown(): alive is cleared, then a sleep of one second, then exit is set.
shutdown ==
    /\ alive' = FALSE
    /\ sleeps' = sleeps + 1
    /\ exit' = TRUE

\* connect() without the test of mqttConnected.
connect_always(ok) ==
    /\ connects' = connects + 1
    /\ link' = IF ok THEN "connecting" ELSE "idle"

\* connect(); ok tells whether _client.connect returns rather than raises.
connect(ok) ==
    IF mqttConnected
    THEN UNCHANGED <<link, connects>>
    ELSE /\ connects' = connects + 1
         /\ link' = IF ok THEN "connecting" ELSE "idle"

connect_raises(ok) == ~mqttConnected /\ ~ok

\* disconnect() that also clears the flag itself.
disconnect_eager ==
    IF mqttConnected
    THEN link' = "closing" /\ mqttConnected' = FALSE
    ELSE UNCHANGED <<link, mqttConnected>>

\* disconnect(): the flag is left to on_disconnect.
disconnect ==
    IF mqttConnected
    THEN link' = "closing" /\ UNCHANGED mqttConnected
    ELSE UNCHANGED <<link, mqttConnected>>

\* on_connect that sets the flag whatever the result code.
on_connect_any(rc) ==
    /\ mqttConnected' = TRUE
    /\ link' = IF rc = 0 THEN "up" ELSE "idle"

\* on_connect(client, userdata, flags, rc); a non-zero rc raises RuntimeError.
on_connect(rc) ==
    IF rc = 0
    THEN /\ mqttConnected' = TRUE
         /\ link' = "up"
    ELSE /\ UNCHANGED mqttConnected
         /\ link' = "idle"

\* on_disconnect that clears the flag only on an unexpected disconnect.
on_disconnect_unexpected_only(rc) ==
    /\ mqttConnected' = IF rc # 0 THEN FALSE ELSE mqttConnected
    /\ link' = "idle"

\* on_disconnect(client, userdata, rc); handle_reconnect(rc) does nothing.
on_disconnect(rc) ==
    /\ mqttConnected' = FALSE
    /\ link' = "idle"

\* The number of calls of handle_reconnect made by on_disconnect(rc).
reconnect_calls(rc) == IF rc # 0 THEN 1 ELSE 0

\* The condition of the while loop, without the test of alive.
loop_condition_always == TRUE

\* The condition of the while loop of process_queue.
loop_condition == alive

\* The try/except of process_queue without the except clause.
try_except_none(r) == r

\* The try/except of process_queue: an exception is logged, not raised.
try_except(r) ==
    IF r.exc = "" THEN r
    ELSE [r EXCEPT !.exc = "", !.logs = r.logs \o <<"MQTT unable to read queue">>]

\* run(): the version gate, connect(), alive = True, then the loop.
Run ==
    /\ pc = "init"
    /\ IF ~check_ss_version(cfg)
       THEN /\ pc' = "refused"
            /\ last' = Did("run", 0, NoneMessage, "",
                           [NoOutcome EXCEPT !.logs = <<"This module requires a min SimpleSensor version">>])
            /\ UNCHANGED <<alive, link, connects>>
       ELSE \E ok \in BOOLEAN :
            /\ connect(ok)
            /\ IF connect_raises(ok)
               THEN /\ pc' = "crashed"
                    /\ UNCHANGED alive
                    /\ last' = Did("run", 0, NoneMessage, "", Raised("OSError"))
               ELSE /\ pc' = "pump"
                    /\ alive' = TRUE
                    /\ last' = Did("run", 0, NoneMessage, "", NoOutcome)
    /\ UNCHANGED <<exit, mqttConnected, inQueue, cfg, published, dropped,
                   nextId, calls, sleeps, arg>>

\* while self.alive: self._client.loop(timeout=1), which runs the callbacks of
\* at most one broker event.
Pump ==
    /\ pc = "pump"
    /\ loop_condition
    /\ \/ /\ pc' = "queue"
          /\ last' = Did("pump", 0, NoneMessage, "", NoOutcome)
          /\ UNCHANGED <<mqttConnected, link>>
       \/ \E rc \in ConnackCodes :
          /\ link = "connecting"
          /\ on_connect(rc)
          /\ pc' = IF rc = 0 THEN "queue" ELSE "crashed"
          /\ last' = Did("on_connect", rc, NoneMessage, "",
                         IF rc = 0 THEN NoOutcome
                         ELSE [Raised("RuntimeError") EXCEPT
                                  !.logs = <<"MQTT failed to connect">>])
       \/ \E rc \in (IF link = "closing" THEN {0} ELSE LostCodes) :
          /\ link \in {"up", "closing"}
          /\ on_disconnect(rc)
          /\ pc' = "queue"
          /\ last' = [Did("on_disconnect", rc, NoneMessage, "", NoOutcome)
                       EXCEPT !.hooks = reconnect_calls(rc)]
    /\ UNCHANGED <<alive, exit, inQueue, cfg, published, dropped, nextId,
                   calls, sleeps, connects, arg>>

\* The rest of one iteration of process_queue: the dequeue and the handling
\* of the message, or the idle sleep. got tells whether inQueue.get returns
\* the head of the queue rather than raises queue.Empty.
QueueStep ==
    /\ pc = "queue"
    /\ IF inQueue # << >>
       THEN \E got \in BOOLEAN :
            LET item == Head(inQueue)
                h == IF got
                     THEN handle_message(item.msg, mqttConnected, cfg.publishJson)
                     ELSE [exc |-> "Empty", pubs |-> << >>, logs |-> << >>,
                           shutdown |-> FALSE, strategy |-> ""]
                r == try_except(h)
            IN  /\ inQueue' = IF got THEN Tail(inQueue) ELSE inQueue
                /\ IF r.shutdown THEN shutdown ELSE UNCHANGED <<alive, exit, sleeps>>
                /\ published' = published \o Tagged(item.id, r.pubs)
                /\ dropped' = IF mqttConnected \/ ~got THEN dropped
                              ELSE dropped \cup {item.id}
                /\ pc' = IF r.exc = "" THEN "pump" ELSE "crashed"
                /\ last' = [Did(IF got THEN "process" ELSE "get", item.id,
                                IF got THEN item.msg ELSE NoneMessage, "",
                                [exc |-> r.exc, pubs |-> r.pubs, logs |-> r.logs])
                            EXCEPT !.strategy = r.strategy]
       ELSE /\ pc' = "pump"
            /\ last' = Did("idle", 0, NoneMessage, "", NoOutcome)
            /\ UNCHANGED <<inQueue, alive, exit, sleeps, published, dropped>>
    /\ UNCHANGED <<mqttConnected, cfg, link, nextId, calls, connects, arg>>

\* The loop condition fails: process_queue and run return.
LoopExit ==
    /\ pc = "pump"
    /\ ~loop_condition
    /\ pc' = "done"
    /\ last' = Did("exit", 0, NoneMessage, "", NoOutcome)
    /\ UNCHANGED <<alive, exit, mqttConnected, inQueue, cfg, link, published,
                   dropped, nextId, calls, sleeps, connects, arg>>

\* The upstream producer puts a message on the inbound queue.
Produce(m) ==
    /\ nextId <= MaxEnq
    /\ pc \in {"init", "pump", "queue"}
    /\ inQueue' = Append(inQueue, [id |-> nextId, msg |-> m])
    /\ nextId' = nextId + 1
    /\ UNCHANGED <<pc, alive, exit, mqttConnected, cfg, link, published,
                   dropped, calls, sleeps, connects, arg, last>>

\* Direct calls of the public methods by the owner of the worker.
CanCall ==
    /\ calls < MaxCalls
    /\ pc # "crashed"
    /\ calls' = calls + 1

CallShutdown ==
    /\ CanCall
    /\ shutdown
    /\ last' = Did("shutdown", 0, NoneMessage, "", NoOutcome)
    /\ UNCHANGED <<pc, mqttConnected, inQueue, cfg, link, published, dropped,
                   nextId, connects, arg>>

CallConnect ==
    /\ CanCall
    /\ \E ok \in BOOLEAN :
        /\ connect(ok)
        /\ last' = Did("connect", 0, NoneMessage, "",
                       IF connect_raises(ok) THEN Raised("OSError") ELSE NoOutcome)
    /\ UNCHANGED <<pc, alive, exit, mqttConnected, inQueue, cfg, published,
                   dropped, nextId, sleeps, arg>>

CallDisconnect ==
    /\ CanCall
    /\ disconnect
    /\ last' = Did("disconnect", 0, NoneMessage, "", NoOutcome)
    /\ UNCHANGED <<pc, alive, exit, inQueue, cfg, published,
                   dropped, nextId, sleeps, connects, arg>>

CallPublish(value, feed) ==
    /\ CanCall
    /\ LET r == publish(value, feed)
       IN  /\ published' = published \o Tagged(0, r.pubs)
           /\ last' = Did("publish", 0, NoneMessage, feed, r)
    /\ UNCHANGED <<pc, alive, exit, mqttConnected, inQueue, cfg, link, dropped,
                   nextId, sleeps, connects, arg>>

CallSubscribe(feed) ==
    /\ CanCall
    /\ LET r == subscribe(feed)
       IN  last' = [Did("subscribe", 0, NoneMessage, feed,
                        [exc |-> r.exc, pubs |-> << >>, logs |-> << >>])
                    EXCEPT !.subs = r.subs]
    /\ UNCHANGED <<pc, alive, exit, mqttConnected, inQueue, cfg, link, published,
                   dropped, nextId, sleeps, connects, arg>>

CallFeeds == {"", "age"}

Next ==
    \/ Run
    \/ Pump
    \/ QueueStep
    \/ LoopExit
    \/ \E m \in QueueMessages : Produce(m)
    \/ CallShutdown
    \/ CallConnect
    \/ CallDisconnect
    \/ \E feed \in CallFeeds : CallPublish(PyInt(30), feed)
    \/ \E feed \in CallFeeds : CallSubscribe(feed)

Spec == Init /\ [][Next]_vars

\* The worker process runs on: each step of its loop that stays possible is
\* taken. Nothing is assumed of the producers, the broker or the callers.
SpecFair ==
    /\ Init
    /\ [][Next]_vars
    /\ WF_vars(Pump)
    /\ WF_vars(QueueStep)
    /\ WF_vars(LoopExit)

----------------------------------------------------------------------------
(* The flattened face attributes strategy on its own: publish_face_values  *)
(* is called once on a message drawn from a bounded set of extended_data.  *)

HappySad == <<"emotion", PyDict(<< <<"happy", PyFloat(8, 10)>>, <<"sad", PyFloat(2, 10)>> >>)>>
FacialHair ==
    <<"facialHair", PyDict(<< <<"moustache", PyFloat(1, 10)>>, <<"beard", PyFloat(4, 10)>>,
                              <<"sideburns", PyInt(0)>> >>)>>
EmptyEmotion == <<"emotion", PyDict(<< >>)>>
MixedEmotion == <<"emotion", PyDict(<< <<"happy", PyFloat(8, 10)>>, <<"label", PyStr("joy")>> >>)>>

AttrPool == {Age30, GenderMale, HappySad, FacialHair, EmptyEmotion, MixedEmotion}

\* A dict has one value per key.
AttrSeqs ==
    {a \in UNION {[1..k -> AttrPool] : k \in 0..MaxAttrs} :
        \A i, j \in 1..Len(a) : i # j => a[i][1] # a[j][1]}

FaceSet == {Face(a) : a \in AttrSeqs} \cup {BadFace}

FaceMessages ==
    {Message(FaceTopic, ListExt(p)) : p \in UNION {[1..k -> FaceSet] : k \in 0..MaxFaces}}
    \cup {Message(FaceTopic, AbsentExt), Message(FaceTopic, ScalarExt)}

InitFace ==
    /\ pc = "init"
    /\ alive = TRUE
    /\ exit = FALSE
    /\ mqttConnected = FALSE
    /\ inQueue = << >>
    /\ cfg = [publishJson |-> FALSE, ss_version |-> << <<2>>, <<1>>, <<0>> >>,
              MinSimpleSensorVersion |-> << <<2>>, <<1>>, <<0>> >>]
    /\ link = "idle"
    /\ published = << >>
    /\ dropped = {}
    /\ nextId = 1
    /\ calls = 0
    /\ sleeps = 0
    /\ connects = 0
    /\ arg \in FaceMessages
    /\ last = Did("none", 0, NoneMessage, "", NoOutcome)

CallPublishFaceValues ==
    /\ calls = 0
    /\ calls' = 1
    /\ LET r == publish_face_values(arg)
       IN  /\ published' = published \o Tagged(0, r.pubs)
           /\ last' = Did("publish_face_values", 0, arg, "", r)
    /\ UNCHANGED <<pc, alive, exit, mqttConnected, inQueue, cfg, link, dropped,
                   nextId, sleeps, connects, arg>>

NextFace == CallPublishFaceValues

SpecFace == InitFace /\ [][NextFace]_vars

----------------------------------------------------------------------------
(* AzureImagePredictor.get_prediction, applied to one request: the length of
   the configured subscription key and what requests.post does are drawn in
   the initial state. *)

\* The longest subscription key tried.
MaxKeyLen == 11

\* The shortest subscription key _get_prediction accepts.
MinKeyLen == 10

\* The status code _get_prediction accepts.
StatusOk == 200

StatusCodes == {StatusOk, 401, 500}

\* The body of a response: a JSON array of so many faces, or text that
\* r.json() cannot parse.
Bodies == {"array0", "array1", "invalid"}

\* What requests.post does: it raises, or it returns a response.
PostOutcomes ==
    {[kind |-> "raises", status |-> 0, body |-> "invalid"]}
    \cup {[kind |-> "response", status |-> c, body |-> b] :
             c \in StatusCodes, b \in Bodies}

Requests == [keyLen : 0..MaxKeyLen, post : PostOutcomes]

PyNone == [kind |-> "none", len |-> 0]
PyList(n) == [kind |-> "list", len |-> n]

\* r.json()
json(body) == IF body = "array0" THEN PyList(0) ELSE PyList(1)

\* _get_prediction(imageBytes): a short key raises to the caller; whatever is
\* raised inside the try is logged, and the method then returns None.
_get_prediction(keyLen, post) ==
    IF keyLen < MinKeyLen
    THEN [exc |-> "EnvironmentError", value |-> PyNone, logs |-> << >>]
    ELSE IF post.kind = "raises"
    THEN [exc |-> "", value |-> PyNone, logs |-> <<"ConnectionError">>]
    ELSE IF post.status # StatusOk
    THEN [exc |-> "", value |-> PyNone, logs |-> <<"ValueError">>]
    ELSE IF post.body = "invalid"
    THEN [exc |-> "", value |-> PyNone, logs |-> <<"ValueError">>]
    ELSE [exc |-> "", value |-> json(post.body), logs |-> << >>]

\* resultData = {}
resultData == [keys |-> {}, predictions |-> PyNone, error |-> "", logs |-> << >>]

\* get_prediction(imageBytes): the resultData it returns, as the set of its
\* keys and the values under them.
get_prediction(keyLen, post) ==
    LET t == _get_prediction(keyLen, post)
    IN  IF t.exc = ""
        THEN [keys |-> {"predictions"}, predictions |-> t.value, error |-> "",
              logs |-> t.logs]
        ELSE [keys |-> {"error"}, predictions |-> PyNone, error |-> t.exc,
              logs |-> t.logs \o <<"Error getting prediction">>]

InitAzure ==
    /\ pc = "init"
    /\ alive = TRUE
    /\ exit = FALSE
    /\ mqttConnected = FALSE
    /\ inQueue = << >>
    /\ cfg = [publishJson |-> FALSE, ss_version |-> <<<<2>>, <<1>>, <<0>>>>,
              MinSimpleSensorVersion |-> <<<<2>>, <<1>>, <<0>>>>]
    /\ link = "idle"
    /\ published = << >>
    /\ dropped = {}
    /\ nextId = 1
    /\ calls = 0
    /\ sleeps = 0
    /\ connects = 0
    /\ arg \in Requests
    /\ last = [op |-> "none", request |-> arg, result |-> resultData]

\* get_prediction called once.
CallGetPrediction ==
    /\ calls = 0
    /\ calls' = 1
    /\ last' = [op |-> "get_prediction", request |-> arg,
                result |-> get_prediction(arg.keyLen, arg.post)]
    /\ UNCHANGED <<pc, alive, exit, mqttConnected, inQueue, cfg, link, published,
                   dropped, nextId, sleeps, connects, arg>>

NextAzure == CallGetPrediction

SpecAzure == InitAzure /\ [][NextAzure]_vars

----------------------------------------------------------------------------
(* Properties of the queue loop. *)

IsShutdown(message) == ~message.none /\ Upper(message.topic) = SHUTDOWN

\* The last handler was an iteration of process_queue that dequeued a message.
Processed == last.op = "process"

\* C1: every dequeued message whose topic is "SHUTDOWN", whatever the case of
\* its letters and whatever the connection state, sets alive to false and
\* has no publish call issued for it.
C1_ShutdownAlwaysHandled ==
    (Processed /\ IsShutdown(last.msg)) => (~alive /\ last.pubs = << >>)

\* C2: the loop issues a broker publish call only while connected; a message
\* dequeued while not connected is dropped silently: no publish call in that
\* iteration or in a later one, nothing logged, and it is not put back on the
\* queue.
C2_DroppedWhenDisconnected ==
    /\ \A i \in 1..Len(published) :
          published[i].id # 0 =>
              published[i].connected /\ published[i].id \notin dropped
    /\ \A i \in 1..Len(inQueue) : inQueue[i].id \notin dropped
    /\ (Processed /\ ~last.connected) =>
          /\ last.pubs = << >>
          /\ last.logs = << >>
          /\ last.id \in dropped

C2_Witness ==
    /\ Processed
    /\ ~last.connected
    /\ last.msg = Message(FaceTopic, ExampleFaces)
    /\ last.id \in dropped
    /\ pc = "pump"

\* C3: with MqttPublishJson true, a message other than the shutdown sentinel
\* that is dequeued while connected is published exactly once, on the default
\* feed, with its canonical serialization as the payload.
C3_RawJsonPublishedOnce ==
    (Processed /\ last.connected /\ cfg.publishJson /\ ~last.msg.none
        /\ ~IsShutdown(last.msg))
    => last.pubs = <<[topic |-> <<MqttUsername, "feeds", MqttFeedName>>,
                      payload |-> stringify(last.msg)]>>

\* C4: a publish or subscribe call without a feed name goes to the topic of
\* the configured default feed, and does not fail for lack of a feed.
C4_DefaultFeedSubstituted ==
    /\ (last.op = "publish" /\ last.feed = "") =>
          /\ last.exc = ""
          /\ Len(last.pubs) = 1
          /\ last.pubs[1].topic = <<MqttUsername, "feeds", MqttFeedName>>
    /\ (last.op = "subscribe" /\ last.feed = "") =>
          /\ last.exc = ""
          /\ last.subs = << <<MqttUsername, "feeds", MqttFeedName>> >>

----------------------------------------------------------------------------
(* Properties of the flattened face attributes strategy. *)

FaceValuesPublished == last.op = "publish_face_values"
FacesOf(message) == message.extended_data.predictions

\* The reduction of a value does not raise: a scalar, or a mapping with at
\* least one sub-value and only numeric sub-values.
Reducible(v) ==
    \/ v.kind # "dict"
    \/ /\ Len(v.items) > 0
       /\ \A k \in 1..Len(v.items) : IsNumber(v.items[k][2])

WellFormed(message) ==
    /\ message.extended_data.kind = "list"
    /\ \A i \in 1..Len(FacesOf(message)) :
          /\ FacesOf(message)[i].ok
          /\ \A j \in 1..Len(FacesOf(message)[i].attrs) :
                Reducible(FacesOf(message)[i].attrs[j][2])

\* The number of attributes of the faces before face i.
RECURSIVE Offset(_, _)
Offset(faces, i) ==
    IF i <= 1 THEN 0 ELSE Offset(faces, i - 1) + Len(faces[i - 1].attrs)

AttrCount(faces) == Offset(faces, Len(faces) + 1)

\* The sum of the sub-values of a mapping, as a rational.
RECURSIVE TotalOf(_)
TotalOf(items) ==
    IF items = << >> THEN [n |-> 0, d |-> 1]
    ELSE LET t == TotalOf(Tail(items))
             v == Head(items)[2]
         IN  [n |-> v.n * t.d + t.n * v.d, d |-> v.d * t.d]

\* C5: for a well-formed list of face records, one publish call per attribute
\* key of each record, in the order of the traversal, on the feed named by the
\* key, a scalar value being the payload as it is.
C5_OnePublishPerAttribute ==
    (FaceValuesPublished /\ WellFormed(last.msg)) =>
        LET faces == FacesOf(last.msg)
        IN  /\ Len(last.pubs) = AttrCount(faces)
            /\ last.logs = << >>
            /\ \A i \in 1..Len(faces) : \A j \in 1..Len(faces[i].attrs) :
                  LET p == last.pubs[Offset(faces, i) + j]
                      a == faces[i].attrs[j]
                  IN  /\ p.topic = <<MqttUsername, "feeds", a[1]>>
                      /\ a[2].kind # "dict" => p.payload = a[2]

C5_Witness ==
    /\ FaceValuesPublished
    /\ last.msg.extended_data = ExampleFaces
    /\ last.pubs = <<[topic |-> <<"account", "feeds", "age">>, payload |-> PyInt(30)],
                     [topic |-> <<"account", "feeds", "gender">>, payload |-> PyStr("male")]>>

\* C6: when the reduction of a nested mapping raises, 0 is published for that
\* attribute key, the error is logged, and the remaining attributes of the
\* message are still emitted.
C6_ReductionFailsSoft ==
    (FaceValuesPublished /\ last.msg.extended_data.kind = "list"
        /\ \A i \in 1..Len(FacesOf(last.msg)) : FacesOf(last.msg)[i].ok)
    =>  LET faces == FacesOf(last.msg)
        IN  /\ Len(last.pubs) = AttrCount(faces)
            /\ \A i \in 1..Len(faces) : \A j \in 1..Len(faces[i].attrs) :
                  ~Reducible(faces[i].attrs[j][2]) =>
                      /\ last.pubs[Offset(faces, i) + j].topic
                            = <<MqttUsername, "feeds", faces[i].attrs[j][1]>>
                      /\ last.pubs[Offset(faces, i) + j].payload = PyInt(0)
                      /\ \E k \in 1..Len(last.logs) :
                            last.logs[k] = "Error flattening dict, returning 0"

\* The predictions are absent, empty or malformed.
NoPredictions(message) ==
    \/ message.extended_data.kind \in {"absent", "scalar"}
    \/ Len(FacesOf(message)) = 0
    \/ \E i \in 1..Len(FacesOf(message)) : ~FacesOf(message)[i].ok

\* The worker is as it was before the call.
WorkerUntouched ==
    /\ alive = last.alive
    /\ exit = last.exit
    /\ pc = last.pc
    /\ mqttConnected = last.connected

\* C7: when the predictions are absent, empty or malformed, no publish call is
\* issued for the message, the error is logged and not raised, alive is
\* unchanged and the worker goes on.
C7_NoPredictionsNoPublish ==
    (FaceValuesPublished /\ NoPredictions(last.msg)) =>
        /\ last.pubs = << >>
        /\ last.logs # << >>
        /\ last.exc = ""
        /\ WorkerUntouched

\* C7 as amended: no publish call is issued when the predictions are absent,
\* not iterable, empty, or malformed at their first record; an error is
\* logged in each of these cases but the empty list, which raises nothing
\* and logs nothing; nothing is raised and the worker is untouched.
C7_NoPublishBeforeFirstRecord ==
    FaceValuesPublished =>
        LET ed == last.msg.extended_data
        IN  /\ last.exc = ""
            /\ WorkerUntouched
            /\ (ed.kind \in {"absent", "scalar"}
                \/ (ed.kind = "list" /\ Len(ed.predictions) > 0 /\ ~ed.predictions[1].ok))
               => (last.pubs = << >> /\ last.logs = <<"Error publishing values">>)
            /\ (ed.kind = "list" /\ Len(ed.predictions) = 0)
               => (last.pubs = << >> /\ last.logs = << >>)

C7_Witness ==
    /\ FaceValuesPublished
    /\ last.msg.extended_data = AbsentExt
    /\ last.pubs = << >>
    /\ last.logs = <<"Error publishing values">>
    /\ alive

\* Attribute j of face i is reached by the traversal: the records up to i are
\* well formed and no earlier reduction raises.
Reached(faces, i, j) ==
    /\ \A k \in 1..i : faces[k].ok
    /\ \A k \in 1..(i - 1) : \A l \in 1..Len(faces[k].attrs) :
          Reducible(faces[k].attrs[l][2])
    /\ \A l \in 1..(j - 1) : Reducible(faces[i].attrs[l][2])

\* C10: an attribute whose value is a mapping of numeric sub-values is
\* published, on the feed named by its key, as the arithmetic mean of the
\* sub-values: the payload times their number equals their sum.
C10_MeanPublished ==
    (FaceValuesPublished /\ last.msg.extended_data.kind = "list") =>
        LET faces == FacesOf(last.msg)
        IN  \A i \in 1..Len(faces) : \A j \in 1..Len(faces[i].attrs) :
               LET a == faces[i].attrs[j]
                   t == TotalOf(a[2].items)
                   at == Offset(faces, i) + j
               IN  (Reached(faces, i, j) /\ a[2].kind = "dict" /\ Reducible(a[2])) =>
                       /\ at <= Len(last.pubs)
                       /\ last.pubs[at].topic = <<MqttUsername, "feeds", a[1]>>
                       /\ IsNumber(last.pubs[at].payload)
                       /\ last.pubs[at].payload.n * t.d * Len(a[2].items)
                             = t.n * last.pubs[at].payload.d

C10_Witness ==
    /\ FaceValuesPublished
    /\ last.msg.extended_data = ListExt(<<Face(<<HappySad>>)>>)
    /\ Len(last.pubs) = 1
    /\ last.pubs[1].topic = <<"account", "feeds", "emotion">>
    /\ RatEq(last.pubs[1].payload, PyFloat(5, 10))

\* The traversal issues a publish for attribute j of face i: it reaches the
\* attribute and the reduction of its value does not raise.
Issued(faces, i, j) == Reached(faces, i, j) /\ Reducible(faces[i].attrs[j][2])

\* C18: the publishes issued for one message are a prefix of the ordered
\* sequence of its (attribute key, value) pairs: once an exception occurs no
\* later attribute, of that face or of a later one, is published; the
\* publishes already issued stand; and the exception is logged, not raised.
C18_PublishesArePrefix ==
    (FaceValuesPublished /\ last.msg.extended_data.kind = "list") =>
        LET faces == FacesOf(last.msg)
            full == \A i \in 1..Len(faces) :
                       faces[i].ok /\ \A j \in 1..Len(faces[i].attrs) : Issued(faces, i, j)
        IN  /\ last.exc = ""
            /\ Len(last.pubs) <= AttrCount(faces)
            /\ \A i \in 1..Len(faces) : \A j \in 1..Len(faces[i].attrs) :
                  LET at == Offset(faces, i) + j
                  IN  /\ (at <= Len(last.pubs)) <=> Issued(faces, i, j)
                      /\ at <= Len(last.pubs) =>
                            /\ last.pubs[at].topic = <<MqttUsername, "feeds", faces[i].attrs[j][1]>>
                            /\ faces[i].attrs[j][2].kind # "dict" =>
                                  last.pubs[at].payload = faces[i].attrs[j][2]
            /\ Len(published) = Len(last.pubs)
            /\ \A k \in 1..Len(last.pubs) :
                  /\ published[k].topic = last.pubs[k].topic
                  /\ published[k].payload = last.pubs[k].payload
            /\ ~full => \E k \in 1..Len(last.logs) : last.logs[k] = "Error publishing values"

C18_Witness ==
    /\ FaceValuesPublished
    /\ last.msg.extended_data = ListExt(<<Face(<<Age30, EmptyEmotion>>), Face(<<GenderMale>>)>>)
    /\ Len(published) = 1
    /\ published[1].topic = <<"account", "feeds", "age">>
    /\ published[1].payload = PyInt(30)
    /\ last.exc = ""

----------------------------------------------------------------------------
(* Properties of startup and shutdown. *)

VersionLower ==
    ListLess(LooseVersion(cfg.ss_version), LooseVersion(cfg.MinSimpleSensorVersion))

\* C8: when the framework version is lower than the module's minimum, run()
\* returns false without raising and never connects, pumps, dequeues or
\* publishes; when it is not lower, run() calls connect() and, that call
\* having returned, enters the loop.
C8_VersionGate ==
    /\ [](/\ (last.op = "run" /\ VersionLower) =>
                (pc = "refused" /\ last.exc = "" /\ connects = last.connects)
          /\ pc = "refused" =>
                /\ VersionLower
                /\ ~mqttConnected
                /\ dropped = {}
                /\ Len(inQueue) = nextId - 1
                /\ \A i \in 1..Len(published) : published[i].id = 0
          /\ (last.op = "run" /\ ~VersionLower) =>
                /\ connects = last.connects + 1
                /\ \/ last.exc = "" /\ pc = "pump" /\ alive
                   \/ last.exc = "OSError" /\ pc = "crashed")
    /\ [][pc = "refused" =>
            (pc' = "refused" /\ UNCHANGED <<inQueue, mqttConnected, dropped>>)]_vars

C8_Witness ==
    /\ pc = "refused"
    /\ last.op = "run"
    /\ cfg.ss_version = << <<2>>, <<0>>, <<0>> >>
    /\ cfg.MinSimpleSensorVersion = << <<2>>, <<1>>, <<0>> >>
    /\ connects = 0

\* C9: a call of shutdown() on a worker already shut down leaves alive false,
\* raises nothing, changes nothing and sleeps no further grace period.
C9_ShutdownIdempotent ==
    (last.op = "shutdown" /\ ~last.alive /\ last.exit) =>
        /\ ~alive
        /\ exit
        /\ last.exc = ""
        /\ sleeps = last.sleeps

\* Everything but the bookkeeping of the direct calls (calls, last).
ProgramState ==
    <<pc, alive, exit, mqttConnected, inQueue, cfg, link, published, dropped,
      nextId, sleeps, connects, arg>>

\* A step that is a direct call of the method named op.
IsCall(op) == calls' = calls + 1 /\ last'.op = op

\* C11: connect() called while connected makes no transport connect call and
\* changes no state; disconnect() called while not connected makes no
\* transport disconnect call and changes no state.
C11_ConnectDisconnectNoOp ==
    /\ [][(IsCall("connect") /\ mqttConnected) =>
              (UNCHANGED ProgramState /\ last'.exc = "")]_vars
    /\ [][(IsCall("disconnect") /\ ~mqttConnected) =>
              (UNCHANGED ProgramState /\ last'.exc = "")]_vars

C11_Witness ==
    /\ last.op = "connect"
    /\ last.connected
    /\ mqttConnected
    /\ last.connects > 0
    /\ connects = last.connects
    /\ link = last.link

\* The last handler was an iteration of process_queue in which the dequeue,
\* or the handling of the dequeued message, raised.
IterationRaised ==
    \/ last.op = "get"
    \/ /\ Processed
       /\ handle_message(last.msg, last.connected, cfg.publishJson).exc # ""

\* C13: an error raised in one iteration of process_queue, by the dequeue or
\* by the translation or publish of a message that is not the sentinel, is
\* caught and logged in that iteration: nothing is raised, alive and the
\* connection state are as they were, and the loop goes on to its next
\* iteration.
C13_IterationErrorsCaught ==
    IterationRaised =>
        /\ last.exc = ""
        /\ \E k \in 1..Len(last.logs) : last.logs[k] = "MQTT unable to read queue"
        /\ alive = last.alive
        /\ exit = last.exit
        /\ mqttConnected = last.connected
        /\ pc = "pump"

C13_Witness ==
    /\ Processed
    /\ IterationRaised
    /\ ~IsShutdown(last.msg)
    /\ last.connected
    /\ alive
    /\ pc = "pump"

\* C14: a connect acknowledgment sets the connection flag exactly when its
\* result code is 0; a non-zero code leaves the flag clear, raises out of the
\* callback and so out of process_queue, past the handler of the messages,
\* and no connect is attempted again.
C14_ConnackSetsFlagIffZero ==
    /\ [](last.op = "on_connect" =>
            IF last.id = 0
            THEN mqttConnected /\ last.exc = "" /\ pc # "crashed"
            ELSE /\ ~mqttConnected
                 /\ last.exc = "RuntimeError"
                 /\ pc = "crashed"
                 /\ connects = last.connects)
    /\ [][(~mqttConnected /\ mqttConnected') =>
              (last'.op = "on_connect" /\ last'.id = 0)]_vars
    /\ [][pc = "crashed" => UNCHANGED <<pc, connects, link, mqttConnected>>]_vars

C14_Witness ==
    /\ last.op = "on_connect"
    /\ last.id # 0
    /\ last.link = "connecting"
    /\ last.exc = "RuntimeError"
    /\ pc = "crashed"
    /\ ~mqttConnected

\* The publishes issued by process_queue (those of direct calls carry id 0).
LoopPublished == SelectSeq(published, LAMBDA p : p.id # 0)

\* C15: a disconnect reported by the broker clears the connection flag
\* whatever its result code, and the reconnect hook is called exactly when
\* the code is not 0; from then on the flag stays clear as long as connect()
\* is not called, and a message dequeued while it is clear is dropped with no
\* publish.
C15_DisconnectClearsFlag ==
    /\ [](last.op = "on_disconnect" =>
            /\ ~mqttConnected
            /\ link # "connecting"
            /\ last.hooks = (IF last.id # 0 THEN 1 ELSE 0)
            /\ last.exc = "")
    /\ [][(~mqttConnected /\ link # "connecting" /\ connects' = connects) =>
              (~mqttConnected' /\ link' # "connecting")]_vars
    /\ [][(~mqttConnected /\ ~mqttConnected') =>
              LoopPublished' = LoopPublished]_vars
    /\ [](Processed /\ ~last.connected =>
            /\ last.pubs = << >>
            /\ last.id \in dropped)

C15_Witness ==
    /\ Processed
    /\ ~last.connected
    /\ ~last.msg.none
    /\ last.connects = 1
    /\ link = "idle"
    /\ \E i \in 1..Len(published) : published[i].connected

\* C16: once the sentinel has made shutdown() clear alive inside
\* process_queue, the loop pumps, dequeues and publishes no more: the messages
\* behind the sentinel stay in the queue, unpublished, and process_queue
\* returns at the next test of its loop condition.
C16_NothingAfterShutdown ==
    /\ []((Processed /\ IsShutdown(last.msg) /\ last.connected) =>
            (~alive /\ pc = "pump" /\ last.pubs = << >>))
    /\ [][(~alive /\ pc \in {"pump", "done"}) =>
              /\ pc' \in {pc, "done"}
              /\ ~alive'
              /\ mqttConnected' = mqttConnected
              /\ LoopPublished' = LoopPublished
              /\ \A i \in 1..Len(inQueue) : inQueue'[i] = inQueue[i]]_vars

C16_Witness ==
    /\ pc = "done"
    /\ ~alive
    /\ calls = 0
    /\ sleeps = 1
    /\ inQueue # << >>
    /\ LoopPublished = << >>

Strategies == {"RawJSON", "FlattenedFaceAttributes", "GenericValues"}

\* C17: for every message dequeued while connected that is not the sentinel,
\* exactly one of the three strategies is invoked, and the configuration
\* alone selects it, whatever the configuration: RawJSON exactly when
\* MqttPublishJson is true.
C17_ExactlyOneStrategy ==
    (Processed /\ last.connected /\ ~last.msg.none /\ ~IsShutdown(last.msg)) =>
        /\ last.strategy \in Strategies
        /\ (last.strategy = "RawJSON") <=> cfg.publishJson

\* The handlers that are not callbacks of the MQTT library.
NotCallbacks ==
    {"run", "pump", "process", "get", "idle", "exit", "connect", "disconnect",
     "publish", "subscribe", "shutdown"}

SentinelDequeued == Processed /\ IsShutdown(last.msg) /\ last.connected

\* C20: the worker loop running on, a sentinel dequeued while connected
\* clears alive, the exit flag is set after the grace period, and
\* process_queue returns; a step dequeues at most one message, which ends the
\* iteration, and no message is dequeued twice.
C20_ShutdownTerminates ==
    /\ [](SentinelDequeued => (~alive /\ exit /\ sleeps = last.sleeps + 1))
    /\ SentinelDequeued ~> (pc = "done" /\ ~alive /\ exit)
    /\ [][\/ inQueue' = inQueue
          \/ /\ inQueue # << >>
             /\ inQueue' = Tail(inQueue)
             /\ pc = "queue"
             /\ pc' # "queue"
             /\ last'.id = Head(inQueue).id
          \/ /\ nextId' = nextId + 1
             /\ \E m \in QueueMessages :
                   inQueue' = Append(inQueue, [id |-> nextId, msg |-> m])]_vars
    /\ [](\A i \in 1..Len(inQueue) :
             /\ inQueue[i].id < nextId
             /\ inQueue[i].id \notin dropped
             /\ Processed => inQueue[i].id > last.id
             /\ \A j \in 1..Len(inQueue) : i < j => inQueue[i].id < inQueue[j].id)

C20_Witness ==
    /\ last.op = "exit"
    /\ pc = "done"
    /\ exit
    /\ ~alive
    /\ last.sleeps = 1
    /\ calls = 0
    /\ nextId > 1

----------------------------------------------------------------------------
(* Properties of get_prediction. *)

\* The REST call failed in one of the three ways named: an invalid
\* subscription key, an exception of the transport, a status other than 200.
RestFailed(request) ==
    \/ request.keyLen < MinKeyLen
    \/ request.post.kind = "raises"
    \/ request.post.status # StatusOk

\* The REST call succeeded: a response of status 200 with a JSON array.
RestSucceeded(request) ==
    /\ request.keyLen >= MinKeyLen
    /\ request.post.kind = "response"
    /\ request.post.status = StatusOk
    /\ request.post.body # "invalid"

\* C12: get_prediction returns an object with either a 'predictions' array or
\* an 'error' string: 'error' and no 'predictions' whenever the REST call
\* fails, a 'predictions' array and no 'error' whenever it succeeds.
C12_PredictionsOrError ==
    last.op = "get_prediction" =>
        /\ RestFailed(last.request) =>
              /\ "error" \in last.result.keys
              /\ "predictions" \notin last.result.keys
        /\ RestSucceeded(last.request) =>
              /\ last.result.keys = {"predictions"}
              /\ last.result.predictions.kind = "list"
====
